---- MODULE Spec2Model ----
(***************************************************************************)
(* Chunked upload endpoints of doc-ai/backend_chunked_endpoints.py.        *)
(*                                                                         *)
(* The handlers are coroutines on one event loop: a handler runs without   *)
(* interruption between two awaits.  The only await of the module is       *)
(* `await chunk.read()` in upload_chunk, so upload_chunk is two steps      *)
(* (UploadChunkStart, UploadChunkFinish) and every other handler is one.   *)
(*                                                                         *)
(* Environment assumptions: uuid4 never repeats a value; unlinking a file  *)
(* that exists succeeds.  Opening and writing a chunk file, and reading a  *)
(* chunk back during assembly, fail when the action's fault parameter says *)
(* so.                                                                     *)
(*                                                                         *)
(* Two specifications.  Spec: the handlers interleaved at the await, with  *)
(* storage faults, over at most MaxRaceSessions sessions.  SpecSeq: every  *)
(* upload_chunk runs to its end before the next handler starts (the read   *)
(* of an upload held in memory does not suspend), no storage faults, over  *)
(* at most MaxSessions sessions.                                           *)
(***************************************************************************)
EXTENDS Integers, Sequences, FiniteSets, TLC

\* ---------------------------------------------------------------- bounds
MaxSessions == 2
MaxRaceSessions == 1
MaxTotalSize == 2
MaxChunkSize == 2
MaxTotalChunks == 2
MaxPayloadLen == 1
MaxTasks == 2

\* ---------------------------------------------------------------- inputs
None == "None"
UploadIds == 1..MaxSessions
Tasks == 1..MaxTasks
FileNames == {"a.pdf"}
\* pydantic's `int` accepts any integer: the request values are not
\* restricted to positive ones
TotalSizeValues == {-1} \cup (0..MaxTotalSize)
ChunkSizeValues == 0..MaxChunkSize
TotalChunksValues == {-1} \cup (0..MaxTotalChunks)
ChunkIndexValues == {-1} \cup (0..MaxTotalChunks)
ProjectIdValues == {None, "p1"}
FolderIdValues == {None, "f1"}
StorageFaults == {"none", "open", "write"}
Bytes == {"x", "y"}
\* chunk payloads: runs of one byte value, of length 1..MaxPayloadLen
Payloads == {[k \in 1..n |-> b] : n \in 1..MaxPayloadLen, b \in Bytes}

VARIABLES
    upload_sessions,   \* the dict upload_sessions: uploadId -> session
    chunk_files,       \* files under temp_chunks/: path -> bytes
    final_files,       \* files under static/uploads/...: path -> bytes
    tasks,             \* upload_chunk calls suspended at `await chunk.read()`
    nextUploadId,      \* uuid4 source of initialize_chunked_upload
    nextFileId,        \* uuid4 source of complete_chunked_upload
    last,              \* response of the handler that returned last
    completeOk,        \* history: uploadId -> number of successful completes
    cancelOk,          \* history: uploadIds whose cancel returned success
    assembled          \* history: uploadId -> final paths opened for it

vars == <<upload_sessions, chunk_files, final_files, tasks, nextUploadId,
          nextFileId, last, completeOk, cancelOk, assembled>>

\* ------------------------------------------------------- python helpers
\* a // b of Python (floor division), b # 0
PyFloorDiv(a, b) == IF b > 0 THEN a \div b ELSE (0 - a) \div (0 - b)

\* set(range(n))
Range(n) == {i \in 0..(n - 1) : TRUE}

\* A dict is an insertion-ordered sequence of [key, value] entries.
DictKeys(d) == {d[k].key : k \in 1..Len(d)}

DictKeyList(d) == [k \in 1..Len(d) |-> d[k].key]

DictGet(d, key) == (CHOOSE e \in {d[k] : k \in 1..Len(d)} : e.key = key).value

\* mutant of DictSet: always a new entry
DictSetAppend(d, key, value) == Append(d, [key |-> key, value |-> value])

\* d[key] = value: replaces the value in place, or appends a new entry
DictSet(d, key, value) ==
    IF key \in DictKeys(d)
    THEN [k \in 1..Len(d) |-> IF d[k].key = key
                              THEN [key |-> key, value |-> value] ELSE d[k]]
    ELSE Append(d, [key |-> key, value |-> value])

\* del m[key] on a mapping held as a function
MapDel(m, key) == [k \in (DOMAIN m) \ {key} |-> m[k]]

MapSet(m, key, value) ==
    [k \in (DOMAIN m) \cup {key} |-> IF k = key THEN value ELSE m[k]]

\* Path.unlink() wrapped in try/except-pass, for a set of paths
UnlinkAll(files, paths) == [p \in (DOMAIN files) \ paths |-> files[p]]

RECURSIVE SortedList(_)
\* sorted(s) for a set of integers
SortedList(s) ==
    IF s = {} THEN <<>>
    ELSE LET m == CHOOSE x \in s : \A y \in s : x <= y
         IN <<m>> \o SortedList(s \ {m})

\* ------------------------------------------------------------ responses
\* A response: the handler that returned, the HTTP status, the condition
\* named by the detail text ("ok" for a 200), and the data of the body.  Of
\* a detail text only the indices of "Missing chunks: [...]" and the sizes
\* of "File size mismatch. Expected .., got .." are kept.
Response(op, status_code, kind, info) ==
    [op |-> op, status_code |-> status_code, kind |-> kind, info |-> info]

NoInfo == [none |-> TRUE]

\* `except Exception as e: raise HTTPException(500, f"Failed ...: {str(e)}")`
\* str(e) of an HTTPException is "<status>: <detail>", so the detail of the
\* caught exception survives inside the new one; the status becomes 500.
Reraised(op, kind, info) == Response(op, 500, kind, info)

Succeeded(r) == r.status_code = 200

\* ------------------------------------------------------------------ Init
IdleTask == [pc |-> "idle"]

Init ==
    /\ upload_sessions = <<>>
    /\ chunk_files = <<>>
    /\ final_files = <<>>
    /\ tasks = [t \in Tasks |-> IdleTask]
    /\ nextUploadId = 1
    /\ nextFileId = 1
    /\ last = Response("none", 200, "none", NoInfo)
    /\ completeOk = [u \in UploadIds |-> 0]
    /\ cancelOk = {}
    /\ assembled = [u \in UploadIds |-> {}]

\* ------------------------------------------- initialize_chunked_upload
\* mutant of ExpectedChunks: rounds down
ExpectedChunksFloor(totalSize, chunkSize) == PyFloorDiv(totalSize, chunkSize)

\* expected_chunks = (totalSize + chunkSize - 1) // chunkSize
ExpectedChunks(totalSize, chunkSize) ==
    PyFloorDiv(totalSize + chunkSize - 1, chunkSize)

\* the dict `session` of lines 83-96, built from the request
NewSession(upload_id, request, project_id, folder_id) ==
    [uploadId |-> upload_id, fileName |-> request.fileName,
     totalSize |-> request.totalSize, chunkSize |-> request.chunkSize,
     totalChunks |-> request.totalChunks,
     projectId |-> project_id, folderId |-> folder_id,
     chunks |-> <<>>, status |-> "initialized"]

\* maxSessions bounds the sessions ever initiated
Initialize(maxSessions, fileName, totalSize, chunkSize, totalChunks, project_id, folder_id) ==
    /\ IF chunkSize = 0
       THEN \* ZeroDivisionError, caught by the handler's except
            /\ last' = Reraised("init", "ZeroDivisionError", NoInfo)
            /\ UNCHANGED <<upload_sessions, nextUploadId>>
       ELSE IF totalChunks # ExpectedChunks(totalSize, chunkSize)
       THEN /\ last' = Reraised("init", "InvalidChunkCount", NoInfo)
            /\ UNCHANGED <<upload_sessions, nextUploadId>>
       ELSE /\ nextUploadId <= maxSessions
            /\ upload_sessions' =
                 MapSet(upload_sessions, nextUploadId,
                        NewSession(nextUploadId,
                                   [fileName |-> fileName, totalSize |-> totalSize,
                                    chunkSize |-> chunkSize, totalChunks |-> totalChunks],
                                   project_id, folder_id))
            /\ nextUploadId' = nextUploadId + 1
            /\ last' = Response("init", 200, "ok",
                         [uploadId |-> nextUploadId, chunkSize |-> chunkSize,
                          totalChunks |-> totalChunks])
    /\ UNCHANGED <<chunk_files, final_files, tasks, nextFileId, completeOk,
                   cancelOk, assembled>>

\* --------------------------------------------------------- upload_chunk
\* f"{uploadId}_chunk_{chunkIndex}" under temp_chunks/
ChunkPath(uploadId, chunkIndex) == <<uploadId, chunkIndex>>

\* `chunkIndex < 0 or chunkIndex >= session["totalChunks"]`
InvalidChunkIndex(session, chunkIndex) ==
    chunkIndex < 0 \/ chunkIndex >= session.totalChunks

\* mutant of AlreadyUploaded: the check is missing
AlreadyUploadedNever(session, chunkIndex) == FALSE

\* `chunkIndex in session["chunks"]`
AlreadyUploaded(session, chunkIndex) == chunkIndex \in DictKeys(session.chunks)

\* mutant of RecordChunk: the dict is replaced, not updated
RecordChunkAlone(chunks, chunkIndex, chunk_path) == DictSet(<<>>, chunkIndex, chunk_path)

\* session["chunks"][chunkIndex] = str(chunk_path)
RecordChunk(chunks, chunkIndex, chunk_path) == DictSet(chunks, chunkIndex, chunk_path)

ProperPrefixes(data) == {SubSeq(data, 1, n) : n \in 0..(Len(data) - 1)}

\* mutant of WriteChunkFile: a failed open or write goes unnoticed
WriteChunkFileUnchecked(files, chunk_path, chunk_data, fault) ==
    IF fault = "none"
    THEN {[ok |-> TRUE, files |-> MapSet(files, chunk_path, chunk_data)]}
    ELSE IF fault = "open"
    THEN {[ok |-> TRUE, files |-> files]}
    ELSE {[ok |-> TRUE, files |-> MapSet(files, chunk_path, pre)] :
            pre \in ProperPrefixes(chunk_data)}

\* `with open(chunk_path, "wb") as f: f.write(chunk_data)`: the outcomes
\* under the storage fault `fault`.  "none": the file holds chunk_data.
\* "open": open() raised, nothing changes.  "write": write() raised after
\* open() truncated the file, a proper prefix of chunk_data is left.
WriteChunkFile(files, chunk_path, chunk_data, fault) ==
    IF fault = "none"
    THEN {[ok |-> TRUE, files |-> MapSet(files, chunk_path, chunk_data)]}
    ELSE IF fault = "open"
    THEN {[ok |-> FALSE, files |-> files]}
    ELSE {[ok |-> FALSE, files |-> MapSet(files, chunk_path, pre)] :
            pre \in ProperPrefixes(chunk_data)}

InFlight(uploadId) == {s \in Tasks : tasks[s].pc = "reading" /\ tasks[s].uploadId = uploadId}

\* Lines 126-145: the validations, up to the suspension at `await chunk.read()`.
UploadChunkStart(t, uploadId, chunkIndex) ==
    /\ tasks[t].pc = "idle"
    /\ \A s \in Tasks : s < t => tasks[s].pc # "idle"
    /\ IF uploadId \notin DOMAIN upload_sessions
       THEN /\ last' = Reraised("upload", "SessionNotFound", NoInfo)
            /\ UNCHANGED tasks
       ELSE IF InvalidChunkIndex(upload_sessions[uploadId], chunkIndex)
       THEN /\ last' = Reraised("upload", "InvalidChunkIndex", NoInfo)
            /\ UNCHANGED tasks
       ELSE IF AlreadyUploaded(upload_sessions[uploadId], chunkIndex)
       THEN /\ last' = Response("upload", 200, "already", NoInfo)
            /\ UNCHANGED tasks
       ELSE /\ tasks' = [s \in Tasks |->
                  IF s = t
                  THEN [pc |-> "reading", uploadId |-> uploadId,
                        chunkIndex |-> chunkIndex,
                        \* history: indices of the calls for this session
                        \* that overlapped this one and returned success
                        ovOk |-> {}]
                  ELSE tasks[s]]
            /\ UNCHANGED last
    /\ UNCHANGED <<upload_sessions, chunk_files, final_files, nextUploadId,
                   nextFileId, completeOk, cancelOk, assembled>>

\* Lines 147-165, for the call of uploadId, chunkIndex that read
\* chunk_data: the chunk is written and recorded.  The local `session` is
\* the dict fetched before the await: when the session has been deleted
\* from upload_sessions meanwhile, the record goes to that unreachable dict
\* and the registry is unchanged.  ovOk is history (see UploadChunkStart).
WriteAndRecord(uploadId, chunkIndex, chunk_data, fault, ovOk) ==
    LET chunk_path == ChunkPath(uploadId, chunkIndex)
    IN \E outcome \in WriteChunkFile(chunk_files, chunk_path, chunk_data, fault) :
          /\ chunk_files' = outcome.files
          /\ IF outcome.ok
             THEN /\ upload_sessions' =
                       IF uploadId \in DOMAIN upload_sessions
                       THEN [upload_sessions EXCEPT ![uploadId].chunks =
                                RecordChunk(@, chunkIndex, chunk_path)]
                       ELSE upload_sessions
                  /\ last' = Response("upload", 200, "ok",
                                [chunkIndex |-> chunkIndex,
                                 chunkSize |-> Len(chunk_data),
                                 \* history, not in the body
                                 uploadId |-> uploadId,
                                 ovOk |-> ovOk])
             ELSE /\ UNCHANGED upload_sessions
                  /\ last' = Reraised("upload", "StorageFailure",
                                [chunkIndex |-> chunkIndex])

\* Lines 145-165: chunk.read() delivers the request's bytes chunk_data (no
\* line before the await looks at them, so they are drawn here), then the
\* rest of the handler runs.
UploadChunkFinish(t, chunk_data, fault) ==
    /\ tasks[t].pc = "reading"
    /\ WriteAndRecord(tasks[t].uploadId, tasks[t].chunkIndex, chunk_data, fault,
                      tasks[t].ovOk)
    /\ tasks' = [s \in Tasks |->
          IF s = t THEN IdleTask
          ELSE IF s \in InFlight(tasks[t].uploadId) /\ Succeeded(last')
          THEN [tasks[s] EXCEPT !.ovOk = @ \cup {tasks[t].chunkIndex}]
          ELSE tasks[s]]
    /\ UNCHANGED <<final_files, nextUploadId, nextFileId, completeOk,
                   cancelOk, assembled>>

\* upload_chunk when chunk.read() returns without suspending: the whole
\* handler in one step.
UploadChunkWhole(uploadId, chunkIndex, chunk_data) ==
    /\ \A t \in Tasks : tasks[t].pc = "idle"
    /\ IF \/ uploadId \notin DOMAIN upload_sessions
          \/ InvalidChunkIndex(upload_sessions[uploadId], chunkIndex)
          \/ AlreadyUploaded(upload_sessions[uploadId], chunkIndex)
       THEN UploadChunkStart(1, uploadId, chunkIndex)
       ELSE /\ WriteAndRecord(uploadId, chunkIndex, chunk_data, "none", {})
            /\ UNCHANGED <<tasks, final_files, nextUploadId, nextFileId,
                           completeOk, cancelOk, assembled>>

\* ---------------------------------------------- complete_chunked_upload
\* `if project_id:` / `elif folder_id:`: None and "" are false
Truthy(x) == x # None /\ x # ""

\* mutant of UploadDir: the folder id is not looked at
UploadDirNoFolder(session) ==
    IF Truthy(session.projectId) THEN <<"static/uploads", session.projectId>>
    ELSE <<"static/uploads/temp">>

\* upload_dir
UploadDir(session) ==
    IF Truthy(session.projectId) THEN <<"static/uploads", session.projectId>>
    ELSE IF Truthy(session.folderId) THEN <<"static/uploads/folders", session.folderId>>
    ELSE <<"static/uploads/temp">>

\* final_file_path = upload_dir / f"{file_id}_{session['fileName']}"
FinalFilePath(session, file_id) ==
    [dir |-> UploadDir(session), file_id |-> file_id, fileName |-> session.fileName]

\* expected_chunks - received_chunks
MissingChunks(session) == Range(session.totalChunks) \ DictKeys(session.chunks)

\* `received_chunks != expected_chunks`
Incomplete(session) == DictKeys(session.chunks) # Range(session.totalChunks)

\* mutant of AssemblyOrder: the keys in arrival order, without sorted()
AssemblyOrderArrival(chunks) == DictKeyList(chunks)

\* `for chunk_index in sorted(session["chunks"].keys())`
AssemblyOrder(chunks) == SortedList(DictKeys(chunks))

\* the paths session["chunks"].values()
ChunkPaths(chunks) == {chunks[k].value : k \in 1..Len(chunks)}

\* The position in the assembly order at which open(chunk_path, "rb") or
\* read() raises: the injected fault failAt, or a chunk file that is not
\* there.  0 when the loop runs to its end.
FirstFailure(order, chunks, files, failAt) ==
    LET bad == {k \in 1..Len(order) :
                  k = failAt \/ DictGet(chunks, order[k]) \notin DOMAIN files}
    IN IF bad = {} THEN 0 ELSE CHOOSE k \in bad : \A j \in bad : k <= j

RECURSIVE Assembled(_, _, _, _)
\* the bytes final_file.write() has received after the first n chunks of
\* the order
Assembled(order, chunks, files, n) ==
    IF n = 0 THEN <<>>
    ELSE Assembled(order, chunks, files, n - 1) \o files[DictGet(chunks, order[n])]

\* mutant of SizeMismatch: the size is not validated
SizeMismatchIgnored(total_size, session) == FALSE

\* `total_size != session["totalSize"]`
SizeMismatch(total_size, session) == total_size # session.totalSize

\* `final_file_path.unlink()  # Remove corrupted file`
RemoveCorrupted(finals, final_file_path) == UnlinkAll(finals, {final_file_path})

\* mutant of SessionsAfterComplete: the session is kept
SessionsAfterCompleteKept(sessions, upload_id) == sessions

\* `del upload_sessions[upload_id]` on the success path (line 249)
SessionsAfterComplete(sessions, upload_id) == MapDel(sessions, upload_id)

\* mutant of CleanupFiles: unlinks by name, registered or not
CleanupFilesByName(sessions, files, upload_id) ==
    UnlinkAll(files, {p \in DOMAIN files : p[1] = upload_id})

\* the except branch (lines 268-275): unlink every recorded chunk and
\* delete the session, when the session is (still) registered
CleanupFiles(sessions, files, upload_id) ==
    IF upload_id \in DOMAIN sessions
    THEN UnlinkAll(files, ChunkPaths(sessions[upload_id].chunks))
    ELSE files

CleanupSessions(sessions, upload_id) ==
    IF upload_id \in DOMAIN sessions THEN MapDel(sessions, upload_id) ELSE sessions

Complete(upload_id, failAt) ==
    /\ IF upload_id \notin DOMAIN upload_sessions
       THEN /\ failAt = 0
            /\ last' = Reraised("complete", "SessionNotFound", NoInfo)
            /\ chunk_files' = CleanupFiles(upload_sessions, chunk_files, upload_id)
            /\ upload_sessions' = CleanupSessions(upload_sessions, upload_id)
            /\ UNCHANGED <<final_files, nextFileId, completeOk, assembled>>
       ELSE IF Incomplete(upload_sessions[upload_id])
       THEN /\ failAt = 0
            /\ last' = Reraised("complete", "IncompleteUpload",
                           [missing |-> MissingChunks(upload_sessions[upload_id])])
            /\ chunk_files' = CleanupFiles(upload_sessions, chunk_files, upload_id)
            /\ upload_sessions' = CleanupSessions(upload_sessions, upload_id)
            /\ UNCHANGED <<final_files, nextFileId, completeOk, assembled>>
       ELSE LET session == upload_sessions[upload_id]
                file_id == nextFileId
                final_file_path == FinalFilePath(session, file_id)
                order == AssemblyOrder(session.chunks)
                failed == FirstFailure(order, session.chunks, chunk_files, failAt)
                n == IF failed = 0 THEN Len(order) ELSE failed - 1
                written == Assembled(order, session.chunks, chunk_files, n)
                total_size == Len(written)
                \* chunk_path.unlink() after each chunk consumed
                files1 == UnlinkAll(chunk_files,
                             {DictGet(session.chunks, order[k]) : k \in 1..n})
            IN /\ nextFileId <= MaxSessions
               /\ failAt <= Len(order)
               /\ nextFileId' = nextFileId + 1
               /\ assembled' = [assembled EXCEPT ![upload_id] = @ \cup {final_file_path}]
               /\ IF failed # 0
                  THEN \* the exception leaves the `with`: the final file is
                       \* closed with what was written and is not removed
                       /\ final_files' = MapSet(final_files, final_file_path, written)
                       /\ last' = Reraised("complete", "StorageFailure",
                                      [path |-> final_file_path, at |-> order[failed]])
                       /\ chunk_files' = CleanupFiles(upload_sessions, files1, upload_id)
                       /\ upload_sessions' = CleanupSessions(upload_sessions, upload_id)
                       /\ UNCHANGED completeOk
                  ELSE IF SizeMismatch(total_size, session)
                  THEN /\ final_files' =
                            RemoveCorrupted(MapSet(final_files, final_file_path, written),
                                            final_file_path)
                       /\ last' = Reraised("complete", "SizeMismatch",
                                      [path |-> final_file_path,
                                       expected |-> session.totalSize,
                                       actual |-> total_size])
                       /\ chunk_files' = CleanupFiles(upload_sessions, files1, upload_id)
                       /\ upload_sessions' = CleanupSessions(upload_sessions, upload_id)
                       /\ UNCHANGED completeOk
                  ELSE /\ final_files' = MapSet(final_files, final_file_path, written)
                       /\ chunk_files' = files1
                       /\ upload_sessions' = SessionsAfterComplete(upload_sessions, upload_id)
                       /\ completeOk' = [completeOk EXCEPT ![upload_id] = @ + 1]
                       /\ last' = Response("complete", 200, "ok",
                                      [fileId |-> file_id, path |-> final_file_path,
                                       size |-> total_size,
                                       \* history, not in the body: the session
                                       \* and the order its chunks arrived in
                                       uploadId |-> upload_id,
                                       arrival |-> DictKeyList(session.chunks)])
    /\ UNCHANGED <<tasks, nextUploadId, cancelOk>>

\* ---------------------------------------------------- get_upload_status
\* [i for i in range(totalChunks) if i not in session["chunks"]]
MissingList(session) == SortedList(MissingChunks(session))

GetStatus(upload_id) ==
    /\ IF upload_id \notin DOMAIN upload_sessions
       THEN last' = Response("status", 404, "SessionNotFound", NoInfo)
       ELSE LET session == upload_sessions[upload_id]
            IN IF session.totalChunks = 0
               THEN \* ZeroDivisionError in the progress expression: no
                    \* handler catches it, the server answers 500
                    last' = Response("status", 500, "ZeroDivisionError", NoInfo)
               ELSE last' = Response("status", 200, "ok",
                              [uploadId |-> upload_id,
                               fileName |-> session.fileName,
                               totalChunks |-> session.totalChunks,
                               receivedChunks |-> Len(session.chunks),
                               missingChunks |-> MissingList(session),
                               status |-> session.status,
                               \* len(chunks) / totalChunks * 100, as the
                               \* fraction num / den
                               progress |-> [num |-> Len(session.chunks) * 100,
                                             den |-> session.totalChunks]])
    /\ UNCHANGED <<upload_sessions, chunk_files, final_files, tasks, nextUploadId,
                   nextFileId, completeOk, cancelOk, assembled>>

\* ------------------------------------------------ cancel_chunked_upload
\* mutant of SessionsAfterCancel: the session is kept
SessionsAfterCancelKept(sessions, upload_id) == sessions

\* `del upload_sessions[upload_id]` (line 317)
SessionsAfterCancel(sessions, upload_id) == MapDel(sessions, upload_id)

Cancel(upload_id) ==
    /\ IF upload_id \notin DOMAIN upload_sessions
       THEN /\ last' = Response("cancel", 404, "SessionNotFound", NoInfo)
            /\ UNCHANGED <<upload_sessions, chunk_files, cancelOk>>
       ELSE /\ chunk_files' = UnlinkAll(chunk_files,
                                 ChunkPaths(upload_sessions[upload_id].chunks))
            /\ upload_sessions' = SessionsAfterCancel(upload_sessions, upload_id)
            /\ cancelOk' = cancelOk \cup {upload_id}
            /\ last' = Response("cancel", 200, "ok", [uploadId |-> upload_id])
    /\ UNCHANGED <<final_files, tasks, nextUploadId, nextFileId, completeOk, assembled>>

\* ------------------------------------------------------------------ Next
Next ==
    \/ \E fileName \in FileNames, totalSize \in TotalSizeValues,
          chunkSize \in ChunkSizeValues, totalChunks \in TotalChunksValues,
          project_id \in ProjectIdValues, folder_id \in FolderIdValues :
          Initialize(MaxRaceSessions, fileName, totalSize, chunkSize, totalChunks,
                     project_id, folder_id)
    \/ \E t \in Tasks, uploadId \in UploadIds, chunkIndex \in ChunkIndexValues :
          UploadChunkStart(t, uploadId, chunkIndex)
    \/ \E t \in Tasks, chunk_data \in Payloads, fault \in StorageFaults :
          UploadChunkFinish(t, chunk_data, fault)
    \/ \E upload_id \in UploadIds, failAt \in 0..MaxTotalChunks : Complete(upload_id, failAt)
    \/ \E upload_id \in UploadIds : GetStatus(upload_id)
    \/ \E upload_id \in UploadIds : Cancel(upload_id)

Spec == Init /\ [][Next]_vars

NextSeq ==
    \/ \E fileName \in FileNames, totalSize \in TotalSizeValues,
          chunkSize \in ChunkSizeValues, totalChunks \in TotalChunksValues :
          Initialize(MaxSessions, fileName, totalSize, chunkSize, totalChunks,
                     None, None)
    \/ \E uploadId \in UploadIds, chunkIndex \in ChunkIndexValues, chunk_data \in Payloads :
          UploadChunkWhole(uploadId, chunkIndex, chunk_data)
    \/ \E upload_id \in UploadIds : Complete(upload_id, 0)
    \/ \E upload_id \in UploadIds : GetStatus(upload_id)
    \/ \E upload_id \in UploadIds : Cancel(upload_id)

SpecSeq == Init /\ [][NextSeq]_vars

\* =============================================================== claims
Registered(uploadId) == uploadId \in DOMAIN upload_sessions

ReceivedKeys(uploadId) == DictKeys(upload_sessions[uploadId].chunks)

\* the chunk files whose name starts with uploadId
StoredFor(files, uploadId) == {p \in DOMAIN files : p[1] = uploadId}

\* [0, totalChunks)
IndexRange(totalChunks) == {i \in ChunkIndexValues : 0 <= i /\ i < totalChunks}

\* the response is the failure "session not found"
NotFound(r) == ~Succeeded(r) /\ r.kind = "SessionNotFound"

\* ------------------------------------------------------------------ C1
\* C1 (Completeness gate): a complete on a registered session whose
\* received indices are a proper subset of [0, totalChunks) fails with
\* IncompleteUpload carrying exactly the missing indices, and leaves the
\* registry and every stored chunk as they were.
C1_CompletenessGate ==
    [][\A u \in UploadIds :
         ( /\ Registered(u)
           /\ ReceivedKeys(u) \subseteq IndexRange(upload_sessions[u].totalChunks)
           /\ ReceivedKeys(u) # IndexRange(upload_sessions[u].totalChunks)
           /\ Complete(u, 0) )
         => /\ last'.op = "complete"
            /\ last'.kind = "IncompleteUpload"
            /\ last'.info.missing =
                  IndexRange(upload_sessions[u].totalChunks) \ ReceivedKeys(u)
            /\ upload_sessions' = upload_sessions
            /\ chunk_files' = chunk_files]_vars

\* ------------------------------------------------------------------ C2
\* C2 (Idempotent ingestion): an ingestChunk that returns success on a
\* registered session leaves its index recorded; from then on, while the
\* session is registered, an ingestChunk for the same (uploadId, i) returns
\* success at once, writes nothing to the chunk store and changes no
\* session: the store holds the one chunk file of (uploadId, i) and the
\* received count is what it was.
C2_IdempotentIngestion ==
    [][/\ \A t \in Tasks, data \in Payloads, fault \in StorageFaults :
            ( /\ tasks[t].pc = "reading"
              /\ Registered(tasks[t].uploadId)
              /\ UploadChunkFinish(t, data, fault)
              /\ Succeeded(last') )
            => tasks[t].chunkIndex \in
                  DictKeys(upload_sessions'[tasks[t].uploadId].chunks)
       /\ \A t \in Tasks, u \in UploadIds, i \in ChunkIndexValues :
            ( /\ Registered(u)
              /\ i \in ReceivedKeys(u)
              /\ UploadChunkStart(t, u, i) )
            => /\ last' = Response("upload", 200, "already", NoInfo)
               /\ chunk_files' = chunk_files
               /\ upload_sessions' = upload_sessions
               /\ tasks' = tasks
               /\ ChunkPath(u, i) \in DOMAIN chunk_files'
               /\ Len(upload_sessions'[u].chunks) = Len(upload_sessions[u].chunks)
               /\ Len(upload_sessions'[u].chunks) =
                     Cardinality(DictKeys(upload_sessions'[u].chunks))]_vars

\* a re-sent chunk was answered "already received" while its session holds
\* the index and the store holds its file
C2_Witness ==
    /\ last.op = "upload" /\ last.kind = "already"
    /\ \E u \in UploadIds : /\ Registered(u)
                            /\ \E i \in ReceivedKeys(u) : ChunkPath(u, i) \in DOMAIN chunk_files

\* ------------------------------------------------------------------ C3
RECURSIVE ConcatByIndex(_, _, _, _)
\* the stored payloads of indices i, i+1, ..., n-1 of session u, joined
ConcatByIndex(files, u, i, n) ==
    IF i >= n THEN <<>>
    ELSE files[ChunkPath(u, i)] \o ConcatByIndex(files, u, i + 1, n)

\* C3 (Order independence): a successful complete leaves, under the path it
\* returns, the concatenation of the stored chunk payloads in ascending
\* index 0, 1, ..., totalChunks-1, whatever the order the chunks arrived
\* in: the artifact is a function of the stored payloads alone.
C3_OrderIndependence ==
    [][\A u \in UploadIds :
         ( /\ Registered(u)
           /\ Complete(u, 0)
           /\ Succeeded(last') )
         => /\ last'.info.path \in DOMAIN final_files'
            /\ final_files'[last'.info.path] =
                  ConcatByIndex(chunk_files, u, 0, upload_sessions[u].totalChunks)]_vars

\* a complete succeeded on chunks that arrived in descending index order
C3_Witness ==
    /\ last.op = "complete" /\ Succeeded(last)
    /\ last.info.arrival = <<1, 0>>
    /\ last.info.path \in DOMAIN final_files
    /\ Len(final_files[last.info.path]) = 2

\* ------------------------------------------------------------------ C4
RECURSIVE SumLen(_, _, _)
\* the sum of the byte lengths of the stored chunks of u with index in S
SumLen(files, u, S) ==
    IF S = {} THEN 0
    ELSE LET i == CHOOSE j \in S : TRUE
         IN Len(files[ChunkPath(u, i)]) + SumLen(files, u, S \ {i})

\* C4 (Size integrity): complete returns success only if the byte lengths
\* of the session's stored chunks sum to totalSize, and then reports
\* size = totalSize; when all chunks are there and the sum differs,
\* complete fails with SizeMismatch(expected totalSize, actual sum) and no
\* file exists under the final name afterwards.
C4_SizeIntegrity ==
    [][\A u \in UploadIds :
         ( /\ Registered(u)
           /\ Complete(u, 0) )
         => /\ Succeeded(last')
                => /\ SumLen(chunk_files, u, ReceivedKeys(u)) = upload_sessions[u].totalSize
                   /\ last'.info.size = upload_sessions[u].totalSize
            /\ ( /\ ReceivedKeys(u) = IndexRange(upload_sessions[u].totalChunks)
                 /\ SumLen(chunk_files, u, ReceivedKeys(u)) # upload_sessions[u].totalSize )
                => /\ ~Succeeded(last')
                   /\ last'.kind = "SizeMismatch"
                   /\ last'.info.expected = upload_sessions[u].totalSize
                   /\ last'.info.actual = SumLen(chunk_files, u, ReceivedKeys(u))
                   /\ last'.info.path \notin DOMAIN final_files']_vars

\* a complete over a received chunk failed with a size mismatch and its
\* final file is gone
C4_Witness ==
    /\ last.op = "complete" /\ last.kind = "SizeMismatch"
    /\ last.info.actual > 0
    /\ last.info.path \notin DOMAIN final_files

\* ------------------------------------------------------------------ C5
\* C5 (Cancel cleans up): once cancel(uploadId) has succeeded, in every
\* later state the registry holds no session for uploadId and the chunk
\* store holds no chunk file of uploadId, and status(uploadId) fails with
\* SessionNotFound.
C5_CancelCleansUp ==
    /\ [](\A u \in cancelOk : ~Registered(u) /\ StoredFor(chunk_files, u) = {})
    /\ [][\A u \in cancelOk : GetStatus(u) => NotFound(last')]_vars

\* ------------------------------------------------------------------ C6
\* ceil(a / b) for positive a and b
Ceil(a, b) == CHOOSE n \in 0..a : n * b >= a /\ (n - 1) * b < a

\* an id no session has had so far
FreshId(u) ==
    /\ ~Registered(u)
    /\ u \notin cancelOk
    /\ completeOk[u] = 0
    /\ assembled[u] = {}
    /\ StoredFor(chunk_files, u) = {}

\* C6 (Count validation): for positive totalSize and chunkSize, initiate
\* fails with InvalidChunkCount exactly when totalChunks differs from
\* ceil(totalSize / chunkSize); a failed initiate leaves the registry as it
\* was; a successful one adds one session under a fresh uploadId with no
\* received chunk and leaves every other session unchanged; neither writes
\* a chunk file.
C6_CountValidation ==
    [][\A fileName \in FileNames, totalSize \in TotalSizeValues,
          chunkSize \in ChunkSizeValues, totalChunks \in TotalChunksValues :
         ( /\ totalSize > 0
           /\ chunkSize > 0
           /\ Initialize(MaxSessions, fileName, totalSize, chunkSize, totalChunks,
                         None, None) )
         => /\ last'.op = "init"
            /\ (~Succeeded(last') /\ last'.kind = "InvalidChunkCount")
                  <=> (totalChunks # Ceil(totalSize, chunkSize))
            /\ Succeeded(last') <=> (totalChunks = Ceil(totalSize, chunkSize))
            /\ ~Succeeded(last') => upload_sessions' = upload_sessions
            /\ Succeeded(last')
                 => /\ FreshId(last'.info.uploadId)
                    /\ DOMAIN upload_sessions' =
                          DOMAIN upload_sessions \cup {last'.info.uploadId}
                    /\ upload_sessions'[last'.info.uploadId].chunks = <<>>
                    /\ \A v \in DOMAIN upload_sessions :
                          upload_sessions'[v] = upload_sessions[v]
            /\ chunk_files' = chunk_files]_vars

\* an initiate succeeded while another session, with a received chunk, is
\* registered
C6_Witness ==
    /\ last.op = "init" /\ Succeeded(last)
    /\ Registered(last.info.uploadId)
    /\ upload_sessions[last.info.uploadId].chunks = <<>>
    /\ \E v \in UploadIds : /\ v # last.info.uploadId
                            /\ Registered(v)
                            /\ ReceivedKeys(v) # {}

\* ------------------------------------------------------------------ C7
\* C7 (Exactly-once assembly): at most one complete per uploadId returns
\* success and at most one final file is produced for it; after a
\* successful complete the session is not in the registry, and every later
\* ingestChunk, complete, status or cancel on that uploadId fails with
\* SessionNotFound.
C7_ExactlyOnceAssembly ==
    /\ [](\A u \in UploadIds :
            /\ completeOk[u] <= 1
            /\ Cardinality(assembled[u] \cap DOMAIN final_files) <= 1
            /\ completeOk[u] >= 1 => ~Registered(u))
    /\ [][\A u \in UploadIds :
            completeOk[u] >= 1
            => /\ \A t \in Tasks, i \in ChunkIndexValues :
                     UploadChunkStart(t, u, i) => NotFound(last')
               /\ \A failAt \in 0..MaxTotalChunks :
                     Complete(u, failAt) => NotFound(last')
               /\ GetStatus(u) => NotFound(last')
               /\ Cancel(u) => NotFound(last')]_vars

\* a second complete on a completed upload was answered "not found"
C7_Witness ==
    /\ last.op = "complete" /\ NotFound(last)
    /\ \E u \in UploadIds : /\ completeOk[u] = 1
                            /\ \E p \in assembled[u] \cap DOMAIN final_files :
                                  Len(final_files[p]) >= 1

\* ------------------------------------------------------------------ C8
\* C8 (Cancel/complete race): no state has both a successful complete and
\* a successful cancel of the same session; a cancel, or a successful
\* complete, that finds the session registered removes it, and a cancel or
\* complete that finds it absent fails with SessionNotFound.
C8_CancelCompleteRace ==
    /\ [](\A u \in UploadIds : ~(completeOk[u] >= 1 /\ u \in cancelOk))
    /\ [][\A u \in UploadIds :
            /\ (Registered(u) /\ Cancel(u))
                  => Succeeded(last') /\ u \notin DOMAIN upload_sessions'
            /\ (Registered(u) /\ Complete(u, 0) /\ Succeeded(last'))
                  => u \notin DOMAIN upload_sessions'
            /\ (~Registered(u) /\ Cancel(u)) => NotFound(last')
            /\ (~Registered(u) /\ Complete(u, 0)) => NotFound(last')]_vars

\* the cancel that lost the race: the upload was completed, the cancel was
\* answered "not found"
C8_Witness ==
    /\ last.op = "cancel" /\ NotFound(last)
    /\ \E u \in UploadIds : completeOk[u] = 1 /\ u \notin cancelOk

\* ------------------------------------------------------------------ C9
\* C9 (Concurrent ingestion): on a storage without faults, an ingestChunk
\* that resumes after its read while its session is registered returns
\* success, whatever other ingestChunk ran meanwhile; afterwards its index
\* is recorded, every entry recorded before is still there unchanged, and
\* there is one entry per index.
C9_ConcurrentIngestion ==
    [][\A t \in Tasks, data \in Payloads :
         ( /\ tasks[t].pc = "reading"
           /\ Registered(tasks[t].uploadId)
           /\ UploadChunkFinish(t, data, "none") )
         => LET u == tasks[t].uploadId
                i == tasks[t].chunkIndex
            IN /\ Succeeded(last')
               /\ u \in DOMAIN upload_sessions'
               /\ DictKeys(upload_sessions'[u].chunks) = ReceivedKeys(u) \cup {i}
               /\ \A k \in ReceivedKeys(u) \ {i} :
                     DictGet(upload_sessions'[u].chunks, k) =
                        DictGet(upload_sessions[u].chunks, k)
               /\ Len(upload_sessions'[u].chunks) =
                     Cardinality(DictKeys(upload_sessions'[u].chunks))]_vars

\* an ingestChunk returned success after an overlapping ingestChunk of
\* another index of the same session had returned success, and the session
\* holds both indices
C9_Witness ==
    /\ last.op = "upload" /\ last.kind = "ok"
    /\ Registered(last.info.uploadId)
    /\ \E j \in last.info.ovOk :
          /\ j # last.info.chunkIndex
          /\ {j, last.info.chunkIndex} \subseteq ReceivedKeys(last.info.uploadId)

\* ----------------------------------------------------------------- C10
\* C10 (Received-set bounds): in every state, for every registered session,
\* the received indices are a subset of [0, totalChunks) and there are at
\* most totalChunks of them; an ingestChunk with an index outside
\* [0, totalChunks) fails with InvalidChunkIndex and changes neither the
\* registry nor the chunk store.
C10_ReceivedWithinRange ==
    /\ [](\A u \in DOMAIN upload_sessions :
            /\ ReceivedKeys(u) \subseteq IndexRange(upload_sessions[u].totalChunks)
            /\ Cardinality(ReceivedKeys(u)) <= upload_sessions[u].totalChunks)
    /\ [][\A t \in Tasks, u \in UploadIds, i \in ChunkIndexValues :
            ( /\ Registered(u)
              /\ i \notin IndexRange(upload_sessions[u].totalChunks)
              /\ UploadChunkStart(t, u, i) )
            => /\ ~Succeeded(last')
               /\ last'.kind = "InvalidChunkIndex"
               /\ upload_sessions' = upload_sessions
               /\ chunk_files' = chunk_files]_vars

\* ----------------------------------------------------------------- C11
\* C11 (No overwrite): while index i stays recorded in a registered
\* session, the bytes stored in the chunk file of (uploadId, i) do not
\* change, whatever ingestChunk calls for that index run.
C11_NeverOverwritten ==
    [][\A u \in UploadIds :
         (Registered(u) /\ u \in DOMAIN upload_sessions')
         => \A i \in ReceivedKeys(u) \cap DictKeys(upload_sessions'[u].chunks) :
               /\ ChunkPath(u, i) \in DOMAIN chunk_files
               /\ ChunkPath(u, i) \in DOMAIN chunk_files'
               /\ chunk_files'[ChunkPath(u, i)] = chunk_files[ChunkPath(u, i)]]_vars

\* ----------------------------------------------------------------- C12
\* C12 (Session lifecycle): a step that removes a session from the
\* registry is a cancel of it, a successful complete of it, or a complete
\* of it that fails with a size mismatch or a storage failure; no other
\* step (initiate, ingestChunk, status, a complete that fails validation)
\* removes a session.
C12_SessionLifecycle ==
    [][\A u \in UploadIds :
         (Registered(u) /\ u \notin DOMAIN upload_sessions')
         => \/ Cancel(u) /\ Succeeded(last')
            \/ \E failAt \in 0..MaxTotalChunks :
                  /\ Complete(u, failAt)
                  /\ last'.kind \in {"ok", "SizeMismatch", "StorageFailure"}]_vars

C14_PartialArtifactDiscarded ==
    [][\A u \in UploadIds, failAt \in 0..MaxTotalChunks :
         ( /\ Registered(u)
           /\ Complete(u, failAt)
           /\ last'.kind = "StorageFailure" )
         => last'.info.path \notin DOMAIN final_files']_vars

\* ----------------------------------------------------------------- C15
\* C15 (Chunk write failure): an ingestChunk whose chunk file cannot be
\* opened or written fails with a storage failure, leaves the registry as
\* it was (the index is not recorded, the session and its entries stay)
\* and leaves the chunk files of the other indices untouched; an index
\* that is not recorded passes the checks of a later ingestChunk, and an
\* ingestChunk that writes without fault records it and stores its bytes.
C15_ChunkWriteFailure ==
    [][/\ \A t \in Tasks, data \in Payloads, fault \in StorageFaults \ {"none"} :
            ( /\ tasks[t].pc = "reading"
              /\ Registered(tasks[t].uploadId)
              /\ UploadChunkFinish(t, data, fault) )
            => LET u == tasks[t].uploadId
                   i == tasks[t].chunkIndex
               IN /\ last'.op = "upload"
                  /\ ~Succeeded(last')
                  /\ last'.kind = "StorageFailure"
                  /\ upload_sessions' = upload_sessions
                  /\ \A p \in (DOMAIN chunk_files) \ {ChunkPath(u, i)} :
                        p \in DOMAIN chunk_files' /\ chunk_files'[p] = chunk_files[p]
                  /\ i \notin ReceivedKeys(u)
                        => /\ ~InvalidChunkIndex(upload_sessions'[u], i)
                           /\ ~AlreadyUploaded(upload_sessions'[u], i)
       /\ \A t \in Tasks, data \in Payloads :
            ( /\ tasks[t].pc = "reading"
              /\ Registered(tasks[t].uploadId)
              /\ tasks[t].chunkIndex \notin ReceivedKeys(tasks[t].uploadId)
              /\ ChunkPath(tasks[t].uploadId, tasks[t].chunkIndex) \in DOMAIN chunk_files
              /\ UploadChunkFinish(t, data, "none") )
            => LET u == tasks[t].uploadId
                   i == tasks[t].chunkIndex
               IN /\ Succeeded(last')
                  /\ i \in DictKeys(upload_sessions'[u].chunks)
                  /\ chunk_files'[ChunkPath(u, i)] = data]_vars

\* an ingestChunk failed on its write and left a truncated file for an
\* index that is not recorded, while the session holds another chunk
C15_Witness ==
    /\ last.op = "upload" /\ last.kind = "StorageFailure"
    /\ \E u \in UploadIds :
          /\ Registered(u)
          /\ ReceivedKeys(u) # {}
          /\ last.info.chunkIndex \notin ReceivedKeys(u)
          /\ ChunkPath(u, last.info.chunkIndex) \in DOMAIN chunk_files
          /\ \A i \in ReceivedKeys(u) : ChunkPath(u, i) \in DOMAIN chunk_files

\* ----------------------------------------------------------------- C16
\* the sequence lists the elements of the set in ascending order
AscendingListOf(list, set) ==
    /\ {list[k] : k \in 1..Len(list)} = set
    /\ \A j, k \in 1..Len(list) : j < k => list[j] < list[k]

\* C16 (Status snapshot): status on a registered session succeeds, changes
\* neither the registry nor the chunk store, and reports the number of
\* received indices, the ascending list of the indices of [0, totalChunks)
\* that are not received, the two adding up to totalChunks, and the
\* progress receivedCount / totalChunks * 100.
C16_StatusSnapshot ==
    [][\A u \in UploadIds :
         (Registered(u) /\ GetStatus(u))
         => /\ upload_sessions' = upload_sessions
            /\ chunk_files' = chunk_files
            /\ last'.op = "status"
            /\ Succeeded(last')
            /\ last'.info.receivedChunks = Cardinality(ReceivedKeys(u))
            /\ AscendingListOf(last'.info.missingChunks,
                  IndexRange(upload_sessions[u].totalChunks) \ ReceivedKeys(u))
            /\ last'.info.receivedChunks + Len(last'.info.missingChunks) =
                  upload_sessions[u].totalChunks
            /\ last'.info.progress.num = Cardinality(ReceivedKeys(u)) * 100
            /\ last'.info.progress.den = upload_sessions[u].totalChunks]_vars

\* ----------------------------------------------------------------- C17
\* C17 (Unknown session): ingestChunk, complete, status and cancel on an
\* uploadId that is not in the registry fail with SessionNotFound and
\* leave the registry, the chunk store and the final files as they were;
\* so does a cancel of an uploadId that was cancelled before.
C17_UnknownSession ==
    [][\A u \in UploadIds :
         ~Registered(u)
         => /\ \A t \in Tasks, i \in ChunkIndexValues :
                  UploadChunkStart(t, u, i)
                  => /\ last'.op = "upload" /\ NotFound(last')
                     /\ tasks' = tasks
                     /\ UNCHANGED <<upload_sessions, chunk_files, final_files>>
            /\ \A failAt \in 0..MaxTotalChunks :
                  Complete(u, failAt)
                  => /\ last'.op = "complete" /\ NotFound(last')
                     /\ UNCHANGED <<upload_sessions, chunk_files, final_files>>
            /\ GetStatus(u)
                  => /\ last'.op = "status" /\ NotFound(last')
                     /\ UNCHANGED <<upload_sessions, chunk_files, final_files>>
            /\ Cancel(u)
                  => /\ last'.op = "cancel" /\ NotFound(last')
                     /\ cancelOk' = cancelOk
                     /\ UNCHANGED <<upload_sessions, chunk_files, final_files>>]_vars

\* a cancel was answered "not found" after a cancel had succeeded, and a
\* chunk file is still in the store
C17_Witness ==
    /\ last.op = "cancel" /\ NotFound(last)
    /\ cancelOk # {}
    /\ upload_sessions = <<>>
    /\ chunk_files # <<>>

\* ----------------------------------------------------------------- C18
\* C18 (Destination): initiate stores the project id or folder id it was
\* called with in the session, and a successful complete, which is given
\* the uploadId only, puts the final file in the project directory when
\* the session was initiated with a project id, in the folder directory
\* when it was initiated with a folder id, and in the temporary directory
\* when it was initiated with neither.
C18_Destination ==
    [][/\ (last'.op = "init" /\ Succeeded(last'))
            => \A fileName \in FileNames, totalSize \in TotalSizeValues,
                  chunkSize \in ChunkSizeValues, totalChunks \in TotalChunksValues,
                  project_id \in ProjectIdValues, folder_id \in FolderIdValues :
                  Initialize(MaxRaceSessions, fileName, totalSize, chunkSize,
                             totalChunks, project_id, folder_id)
                  => /\ upload_sessions'[last'.info.uploadId].projectId = project_id
                     /\ upload_sessions'[last'.info.uploadId].folderId = folder_id
       /\ \A u \in UploadIds :
            ( /\ Registered(u)
              /\ Complete(u, 0)
              /\ Succeeded(last') )
            => LET session == upload_sessions[u]
                   dir == last'.info.path.dir
               IN /\ last'.info.path \in DOMAIN final_files'
                  /\ (session.projectId # None /\ session.folderId = None)
                        => dir = <<"static/uploads", session.projectId>>
                  /\ (session.projectId = None /\ session.folderId # None)
                        => dir = <<"static/uploads/folders", session.folderId>>
                  /\ (session.projectId = None /\ session.folderId = None)
                        => dir = <<"static/uploads/temp">>]_vars

\* a complete succeeded and left a non-empty final file in a folder's
\* directory
C18_Witness ==
    /\ last.op = "complete" /\ Succeeded(last)
    /\ last.info.path.dir = <<"static/uploads/folders", "f1">>
    /\ last.info.path \in DOMAIN final_files
    /\ Len(final_files[last.info.path]) >= 1

\* ----------------------------------------------------------------- C19
\* C19 (No orphan chunks): once complete(uploadId) has succeeded, no later
\* state has a chunk file of that uploadId in the chunk store, whatever
\* ingestChunk calls of the session were in flight when complete ran.
C19_NoOrphanChunks ==
    \A u \in UploadIds : completeOk[u] >= 1 => StoredFor(chunk_files, u) = {}

\* ----------------------------------------------------------------- C20
\* C20 (Positive sizes): every registered session has totalSize > 0,
\* chunkSize > 0 and totalChunks > 0, and status on a registered session
\* succeeds with a progress between 0 and 100.
C20_PositiveSizes ==
    /\ [](\A u \in DOMAIN upload_sessions :
            /\ upload_sessions[u].totalSize > 0
            /\ upload_sessions[u].chunkSize > 0
            /\ upload_sessions[u].totalChunks > 0)
    /\ [][\A u \in UploadIds :
            (Registered(u) /\ GetStatus(u))
            => /\ Succeeded(last')
               /\ last'.info.progress.den > 0
               /\ 0 <= last'.info.progress.num
               /\ last'.info.progress.num <= 100 * last'.info.progress.den]_vars

====
